---------------------------- MODULE Spec2Model ----------------------------
(***************************************************************************)
(* Black-Scholes implied-volatility solver of options-iv-surface           *)
(* (src/iv_calculator.py): the pricer, the Newton-Raphson and bracketed    *)
(* solvers, calculate_iv and the row-wise batch driver.                    *)
(*                                                                         *)
(* Numbers.  The program computes in IEEE doubles.  Here a finite double   *)
(* x is the integer round(x * 10^8) (one unit = 1e-8), kept within         *)
(* +-MaxV (about 21.47) by saturation, and NaN is a value of its own that  *)
(* every arithmetic operator propagates and every comparison rejects, as   *)
(* in IEEE arithmetic.  Saturation stands for the doubles' wide range: a   *)
(* saturated value is only ever clamped afterwards or handed to the        *)
(* normal distribution, which is flat there at this resolution.            *)
(***************************************************************************)
EXTENDS Integers, Sequences, FiniteSets, TLC

\* ---------------------------------------------------------------- state

VARIABLES
    mode,             \* the caller: "solve" solves one quote by Newton and
                      \* then by bisection, as the tests do; "batch" is
                      \* calculate_iv_for_dataframe; "pricer" prices once
    hpc,              \* the caller's control point
    truth,            \* solve: the volatility the quote was priced with, or None
    df,               \* batch: the caller's dataframe, a sequence of rows
    risk_free_rate,   \* batch: the rate argument
    ivs,              \* batch: the local list ivs
    out,              \* batch: the dataframe returned
    done,             \* batch: the invocations finished: input, frame, output
    again,            \* batch: the row whose one-row batch is run next, or 0
    calls,            \* the calculate_iv calls finished so far: args and ret
    args,             \* calculate_iv: the arguments of the call
    pc,               \* calculate_iv: the control point, through its callees
    loc,              \* calculate_iv and callees: the local variables
    ret,              \* calculate_iv: the value returned
    stats,            \* what the call has done so far (history)
    pin,              \* pricer: the arguments (S, K, T, r, sigma)
    pout,             \* pricer: the values returned so far
    viz,              \* visualizer: the frame, the object's fields, the result
    par               \* worker pool: the rows taken, the attempts in flight, the results

callerVars == <<mode, hpc, truth, df, risk_free_rate, ivs, out, done, again, calls>>
frameVars == <<args, pc, loc, ret, stats>>
pricerVars == <<pin, pout>>
vizVars == <<viz>>
parVars == <<par>>
vars == <<mode, hpc, truth, df, risk_free_rate, ivs, out, done, again, calls,
          args, pc, loc, ret, stats, pin, pout, viz, par>>

\* ------------------------------------------------------------ fixed point

Half == 100 * 100                  \* 10^4: the split used by Mul
U == Half * Half                   \* 10^8: one (1.0)
MaxV == 2147483647 - 2             \* largest finite value (saturation)
NaN == 0 - (MaxV + 2)              \* IEEE not-a-number
None == 0 - (MaxV + 1)             \* Python's None

IsNaN(x) == x = NaN
Abs(x) == IF x < 0 THEN 0 - x ELSE x
Sgn(x) == IF x < 0 THEN 0 - 1 ELSE 1

\* a + b, saturating, NaN-propagating
Add(a, b) ==
    IF IsNaN(a) \/ IsNaN(b) THEN NaN
    ELSE IF a >= 0 /\ b >= 0 THEN (IF a > MaxV - b THEN MaxV ELSE a + b)
    ELSE IF a < 0 /\ b < 0 THEN (IF a < (0 - MaxV) - b THEN 0 - MaxV ELSE a + b)
    ELSE a + b

Neg(a) == IF IsNaN(a) THEN NaN ELSE 0 - a
Sub(a, b) == Add(a, Neg(b))

\* |a| * |b| / 10^8 rounded to nearest, for a, b >= 0, saturating
MulMag(a, b) ==
    LET a1 == a \div Half
        a0 == a % Half
        b1 == b \div Half
        b0 == b % Half
        x == a1 * b0
        y == a0 * b1
        z == (a0 * b0 + (U \div 2)) \div Half
        lo == (x \div Half) + (y \div Half) + (((x % Half) + (y % Half) + z) \div Half)
    IN  IF a1 > 0 /\ b1 > (MaxV - lo) \div a1 THEN MaxV ELSE a1 * b1 + lo

Mul(a, b) ==
    IF IsNaN(a) \/ IsNaN(b) THEN NaN
    ELSE Sgn(a) * Sgn(b) * MulMag(Abs(a), Abs(b))

\* one decimal digit of r/b for 0 <= r < b <= 2^30: <<digit, remainder>>
RECURSIVE SlowDigit(_, _, _, _, _)
SlowDigit(acc, d, k, r, b) ==
    IF k = 0 THEN <<d, acc>>
    ELSE IF acc + r >= b THEN SlowDigit(acc + r - b, d + 1, k - 1, r, b)
    ELSE SlowDigit(acc + r, d, k - 1, r, b)

Digit(r, b) ==
    IF r < 214748364 THEN <<(r * 10) \div b, (r * 10) % b>>
    ELSE SlowDigit(0, 0, 10, r, b)

\* the k next decimal digits of the quotient q with remainder r
RECURSIVE LongDiv(_, _, _, _)
LongDiv(q, r, b, k) ==
    IF k = 0 THEN (IF r + r >= b THEN q + 1 ELSE q)
    ELSE LET d == Digit(r, b) IN LongDiv(q * 10 + d[1], d[2], b, k - 1)

\* a * 10^8 / b rounded to nearest, for a >= 0, 0 < b <= 2^30, saturating
DivMag(a, b) ==
    IF a \div b >= MaxV \div U THEN MaxV ELSE LongDiv(a \div b, a % b, b, 8)

\* a / b; x/0 is +-infinity (saturated) and 0/0 is NaN, as for numpy doubles
Div(a, b) ==
    IF IsNaN(a) \/ IsNaN(b) THEN NaN
    ELSE IF b = 0 THEN (IF a = 0 THEN NaN ELSE Sgn(a) * MaxV)
    ELSE Sgn(a) * Sgn(b) * DivMag(Abs(a), Abs(b))

\* IEEE comparisons: false whenever an operand is NaN
Lt(a, b) == ~IsNaN(a) /\ ~IsNaN(b) /\ a < b
Le(a, b) == ~IsNaN(a) /\ ~IsNaN(b) /\ a <= b
Gt(a, b) == Lt(b, a)

\* Python's builtin max(a, b) and min(a, b): the first argument unless the
\* second compares greater (less), so a NaN first argument is returned and
\* a NaN second argument is dropped
PyMax(a, b) == IF Gt(b, a) THEN b ELSE a
PyMin(a, b) == IF Lt(b, a) THEN b ELSE a

\* integer square root: the largest s in lo..hi with s*s <= n
RECURSIVE ISqrt(_, _, _)
ISqrt(n, lo, hi) ==
    IF lo >= hi THEN lo
    ELSE LET mid == (lo + hi + 1) \div 2
         IN  IF mid * mid <= n THEN ISqrt(n, mid, hi) ELSE ISqrt(n, lo, mid - 1)

\* np.sqrt(x) for x >= 0: sqrt(x/U)*U = isqrt(x)*10^4, refined by two Heron steps
Sqrt(x) ==
    IF IsNaN(x) \/ x < 0 THEN NaN
    ELSE IF x = 0 THEN 0
    ELSE LET s0 == ISqrt(x, 1, 46340) * Half
             s1 == (s0 + Div(x, s0)) \div 2
             s2 == (s1 + Div(x, s1) + 1) \div 2
         IN  s2

\* ------------------------------------------------- elementary functions

Ln2 == 69314718 + 0                \* ln 2
Sqrt2 == 141421356 + 0             \* sqrt 2

\* e^(-f) for 0 <= f < ln 2: the Taylor series in Horner form, k..12
RECURSIVE ExpSeries(_, _)
ExpSeries(f, k) ==
    IF k > 12 THEN U
    ELSE U - MulMag((f + (k \div 2)) \div k, ExpSeries(f, k + 1))

RECURSIVE Pow2(_)
Pow2(n) == IF n = 0 THEN 1 ELSE 2 * Pow2(n - 1)

\* e^(-y) for y >= 0: e^(-y) = 2^(-n) * e^(-f) with y = n ln 2 + f
ExpNeg(y) ==
    LET n == y \div Ln2
        f == y % Ln2
    IN  IF n > 27 THEN 0
        ELSE (ExpSeries(f, 1) + (Pow2(n) \div 2)) \div Pow2(n)

\* np.exp(x)
Exp(x) ==
    IF IsNaN(x) THEN NaN
    ELSE IF x <= 0 THEN ExpNeg(0 - x)
    ELSE Div(U, ExpNeg(x))

\* 1/k + z2 * (1/(k+2) + z2 * ( ... 1/13)): the atanh series in Horner form
RECURSIVE LnSeries(_, _)
LnSeries(z2, k) ==
    IF k > 13 THEN 0
    ELSE (U \div k) + MulMag(z2, LnSeries(z2, k + 2))

\* ln x for x in [1/sqrt 2, sqrt 2] shifted by e powers of two
RECURSIVE LnReduce(_, _)
LnReduce(x, e) ==
    IF x > Sqrt2 THEN LnReduce((x + 1) \div 2, e + 1)
    ELSE IF 2 * x < Sqrt2 THEN LnReduce(2 * x, e - 1)
    ELSE LET z == Div(x - U, x + U)
         IN  e * Ln2 + 2 * Mul(z, LnSeries(MulMag(Abs(z), Abs(z)), 1))

\* np.log(x): -infinity at 0, NaN below
Ln(x) ==
    IF IsNaN(x) \/ x < 0 THEN NaN
    ELSE IF x = 0 THEN 0 - MaxV
    ELSE LnReduce(x, 0)

\* scipy.stats.norm.pdf(x) = exp(-x^2/2) / sqrt(2 pi)
NormPdf(x) ==
    IF IsNaN(x) THEN NaN
    ELSE MulMag(ExpNeg(MulMag(Abs(x), Abs(x) \div 2)), 39894228)

\* scipy.stats.norm.cdf(x), by the rational approximation 26.2.17 of
\* Abramowitz and Stegun (absolute error below 7.5e-8):
\*   Phi(x) = 1 - pdf(x) (b1 t + b2 t^2 + b3 t^3 + b4 t^4 + b5 t^5),
\*   t = 1 / (1 + 0.2316419 x), for x >= 0, and Phi(-x) = 1 - Phi(x)
NormCdfUpper(x) ==
    LET t == Div(U, U + MulMag(23164190, x))
        p5 == 133027443
        p4 == Mul(t, p5) - 182125598
        p3 == Mul(t, p4) + 178147794
        p2 == Mul(t, p3) - 35656378
        p1 == Mul(t, p2) + 31938153
    IN  Mul(NormPdf(x), Mul(t, p1))

NormCdf(x) ==
    IF IsNaN(x) THEN NaN
    ELSE IF x >= 0 THEN U - NormCdfUpper(x)
    ELSE NormCdfUpper(0 - x)

\* ------------------------------------------------------------- the pricer

\* d1 = (np.log(S / K) + (r + 0.5 * sigma ** 2) * T) / (sigma * np.sqrt(T));
\* 0.5 * sigma ** 2 is taken as (0.5 * sigma) * sigma, which stays in range
D1(S, K, T, r, sigma) ==
    Div(Add(Ln(Div(S, K)), Mul(Add(r, Mul(Mul(U \div 2, sigma), sigma)), T)),
        Mul(sigma, Sqrt(T)))

\* d2 = d1 - sigma * np.sqrt(T)
D2(S, K, T, r, sigma) == Sub(D1(S, K, T, r, sigma), Mul(sigma, Sqrt(T)))

\* variant: the expiry branch taken only for T < 0
black_scholes_call_strict(S, K, T, r, sigma) ==
    IF Lt(T, 0) THEN PyMax(Sub(S, K), 0)
    ELSE Sub(Mul(S, NormCdf(D1(S, K, T, r, sigma))),
             Mul(Mul(K, Exp(Neg(Mul(r, T)))), NormCdf(D2(S, K, T, r, sigma))))

black_scholes_call(S, K, T, r, sigma) ==
    IF Le(T, 0) THEN PyMax(Sub(S, K), 0)
    ELSE LET d1 == D1(S, K, T, r, sigma)
             d2 == Sub(d1, Mul(sigma, Sqrt(T)))
         IN  Sub(Mul(S, NormCdf(d1)),
                 Mul(Mul(K, Exp(Neg(Mul(r, T)))), NormCdf(d2)))

\* variant: the put priced with d1 where d2 belongs
black_scholes_put_d1(S, K, T, r, sigma) ==
    IF Le(T, 0) THEN PyMax(Sub(K, S), 0)
    ELSE Sub(Mul(Mul(K, Exp(Neg(Mul(r, T)))), NormCdf(Neg(D1(S, K, T, r, sigma)))),
             Mul(S, NormCdf(Neg(D1(S, K, T, r, sigma)))))

black_scholes_put(S, K, T, r, sigma) ==
    IF Le(T, 0) THEN PyMax(Sub(K, S), 0)
    ELSE LET d1 == D1(S, K, T, r, sigma)
             d2 == Sub(d1, Mul(sigma, Sqrt(T)))
         IN  Sub(Mul(Mul(K, Exp(Neg(Mul(r, T)))), NormCdf(Neg(d2))),
                 Mul(S, NormCdf(Neg(d1))))

vega(S, K, T, r, sigma) ==
    IF Le(T, 0) THEN 0
    ELSE Mul(Mul(S, NormPdf(D1(S, K, T, r, sigma))), Sqrt(T))

\* -------------------------------------------------------------- the solver

max_iterations == 100              \* implied_volatility_newton's default
tolerance == 100                   \* 1e-6, the default of both solvers
vega_floor == 1                    \* 1e-10: below the resolution, so the
                                   \* least positive value stands for it
guess_lo == 1000000                \* 0.01, the initial guess's lower clamp
guess_hi == 300000000              \* 3.0, the initial guess's upper clamp
sigma_lo == 100000                 \* 0.001, Newton's lower clamp
sigma_hi == 500000000              \* 5.0, Newton's upper clamp
low_vol == 100000                  \* 0.001, the bracket's lower end
high_vol == 500000000              \* 5.0, the bracket's upper end
iv_min == 1000000                  \* 0.01, the accepted band's lower end
iv_max == 500000000                \* 5.0, the accepted band's upper end
HalfPi == 157079633 + 0            \* pi / 2

\* variant: the absolute value forgotten
NoAbs(x) == x

FAbs(x) == IF IsNaN(x) THEN NaN ELSE Abs(x)

\* bs_func = self.black_scholes_call if option_type == 'call' else self.black_scholes_put
bs_func(option_type, S, K, T, r, sigma) ==
    IF option_type = "call" THEN black_scholes_call(S, K, T, r, sigma)
    ELSE black_scholes_put(S, K, T, r, sigma)

\* a / b on plain Python numbers raises ZeroDivisionError when b is 0
ZeroDivision(b) == b = 0

\* variant: the iteration starts where the previous solve stopped
WarmStart(option_price, S, T) ==
    IF loc.sigma # 0 THEN loc.sigma
    ELSE PyMax(guess_lo, PyMin(Mul(Mul(2 * U, Sqrt(Div(HalfPi, T))), Div(option_price, S)), guess_hi))

\* sigma = np.sqrt(2 * np.pi / T) * (option_price / S), clamped to [0.01, 3.0];
\* sqrt(2 pi / T) is taken as 2 sqrt((pi / 2) / T), which stays in range
InitialGuess(option_price, S, T) ==
    PyMax(guess_lo,
          PyMin(Mul(Mul(2 * U, Sqrt(Div(HalfPi, T))), Div(option_price, S)), guess_hi))

\* variant: the update without its clamp
NewtonUpdateFree(sigma, price_diff, vega_val) == Add(sigma, Div(price_diff, vega_val))

\* sigma = sigma + price_diff / vega_val, clamped to [0.001, 5.0]
NewtonUpdate(sigma, price_diff, vega_val) ==
    PyMax(sigma_lo, PyMin(Add(sigma, Div(price_diff, vega_val)), sigma_hi))

\* objective(sigma) = bs_func(S, K, T, r, sigma) - option_price
objective(a, sigma) ==
    Sub(bs_func(a.option_type, a.S, a.K, a.T, a.r, sigma), a.option_price)

\* variant: the sign test inverted
ProductNegative(a, b) ==
    ~IsNaN(a) /\ ~IsNaN(b) /\ ((a > 0 /\ b < 0) \/ (a < 0 /\ b > 0))

\* a * b > 0 on doubles: both nonzero and of one sign (the rounded product
\* would lose the sign of a small one)
ProductPositive(a, b) ==
    ~IsNaN(a) /\ ~IsNaN(b) /\ ((a > 0 /\ b > 0) \/ (a < 0 /\ b < 0))

\* Python truthiness of an Optional[float]: None and 0.0 are false, NaN is true
Truthy(iv) == iv # None /\ iv # 0

\* variant: the validation with strict comparisons
InvalidInputStrict(a) ==
    Lt(a.option_price, 0) \/ Lt(a.S, 0) \/ Lt(a.K, 0) \/ Lt(a.T, 0)

\* if option_price <= 0 or S <= 0 or K <= 0 or T <= 0: return None
InvalidInput(a) ==
    Le(a.option_price, 0) \/ Le(a.S, 0) \/ Le(a.K, 0) \/ Le(a.T, 0)

\* variant: the call's intrinsic value for either kind
IntrinsicOfCall(a) == PyMax(Sub(a.S, a.K), 0)

\* intrinsic = max(S - K, 0) for a call, max(K - S, 0) otherwise
Intrinsic(a) ==
    IF a.option_type = "call" THEN PyMax(Sub(a.S, a.K), 0) ELSE PyMax(Sub(a.K, a.S), 0)

\* variant: the method's value is returned unexamined
ReturnRaw(iv) == iv

\* variant: a result outside the band is clamped into it
ClampResult(iv) ==
    IF Truthy(iv) THEN PyMax(iv_min, PyMin(iv, iv_max)) ELSE None

\* if iv and 0.01 <= iv <= 5.0: return iv; return None
ValidateResult(iv) ==
    IF Truthy(iv) /\ Le(iv_min, iv) /\ Le(iv, iv_max) THEN iv ELSE None


NoArgs == [option_price |-> 0, S |-> 0, K |-> 0, T |-> 0, r |-> 0,
           option_type |-> "call", method |-> "newton"]
NoLoc == [sigma |-> 0, k |-> 0, iv |-> None, in_try |-> FALSE,
          xa |-> 0, fa |-> 0, xb |-> 0, fb |-> 0]
\* nPrice, nVega: pricer and vega evaluations; nIter: Newton iterations;
\* nBrentq: root-finder steps; caught: the except clause ran; phases: the
\* stages of the call; exit: how the method dispatched to ended
NoStats == [nPrice |-> 0, nVega |-> 0, nIter |-> 0, nBrentq |-> 0,
            caught |-> FALSE, fallback |-> FALSE,
            phases |-> <<"Validating">>, exit |-> "none"]
NoPin == [S |-> 0, K |-> 0, T |-> 0, r |-> 0, sigma |-> 0]
NoPout == [call |-> None, put |-> None, vega |-> None]

\* no visualizer has been constructed
NoViz == [pc |-> "none"]

\* no worker pool has been started
NoPar == [phase |-> "none"]

\* ---------------------------------------------------------- calculate_iv

\* a caller enters calculate_iv(a): fresh history, the locals not yet assigned
Enter(a) ==
    /\ args' = a
    /\ pc' = "validate"
    /\ stats' = NoStats
    /\ UNCHANGED <<loc, ret>>

\* the method dispatched to hands iv back to calculate_iv
Deliver(iv, how, st) ==
    /\ pc' = "result"
    /\ loc' = [loc EXCEPT !.iv = iv]
    /\ stats' = [st EXCEPT !.exit = how]
    /\ UNCHANGED <<args, ret>>

\* variant: no try/except around the root-finder
RaiseUncaught(st) ==
    /\ pc' = "raised"
    /\ stats' = [st EXCEPT !.exit = "raised"]
    /\ UNCHANGED <<args, loc, ret>>

\* an exception is raised: inside implied_volatility_bisection's try it is
\* caught and None returned, elsewhere it leaves calculate_iv
Raise(st) ==
    IF loc.in_try
    THEN Deliver(None, "except", [st EXCEPT !.caught = TRUE])
    ELSE /\ pc' = "raised"
         /\ stats' = [st EXCEPT !.exit = "raised"]
         /\ UNCHANGED <<args, loc, ret>>

\* if option_price <= 0 or S <= 0 or K <= 0 or T <= 0: return None
Validate ==
    /\ pc = "validate"
    /\ IF InvalidInput(args)
       THEN /\ pc' = "returned"
            /\ ret' = None
            /\ stats' = [stats EXCEPT !.phases = Append(@, "Rejected"), !.exit = "input"]
       ELSE /\ pc' = "arbitrage"
            /\ UNCHANGED <<ret, stats>>
    /\ UNCHANGED <<args, loc>>
    /\ UNCHANGED <<callerVars, pricerVars, vizVars, parVars>>

\* if option_price < intrinsic: return None; else dispatch on method
ArbitrageCheck ==
    /\ pc = "arbitrage"
    /\ IF Lt(args.option_price, Intrinsic(args))
       THEN /\ pc' = "returned"
            /\ ret' = None
            /\ stats' = [stats EXCEPT !.phases = Append(@, "Rejected"), !.exit = "arbitrage"]
            /\ UNCHANGED loc
       ELSE /\ pc' = IF args.method = "newton" THEN "newton" ELSE "bisection"
            /\ loc' = [loc EXCEPT !.in_try = FALSE]
            /\ stats' = [stats EXCEPT !.phases = Append(@, "Iterating")]
            /\ UNCHANGED ret
    /\ UNCHANGED args
    /\ UNCHANGED <<callerVars, pricerVars, vizVars, parVars>>

\* implied_volatility_newton up to its loop: the T <= 0 return and the
\* initial guess
NewtonInit ==
    /\ pc = "newton"
    /\ IF Le(args.T, 0) THEN Deliver(None, "expired", stats)
       ELSE IF ZeroDivision(args.S) THEN Raise(stats)
       ELSE /\ pc' = "newton_loop"
            /\ loc' = [loc EXCEPT !.sigma = InitialGuess(args.option_price, args.S, args.T),
                                  !.k = 0]
            /\ UNCHANGED <<args, ret, stats>>
    /\ UNCHANGED <<callerVars, pricerVars, vizVars, parVars>>

\* variant: the update is applied before the tolerance test returns
NewtonIterateStepFirst ==
    /\ pc = "newton_loop"
    /\ loc.k < max_iterations
    /\ IF ZeroDivision(args.K) THEN Raise(stats)
       ELSE LET price == bs_func(args.option_type, args.S, args.K, args.T, args.r, loc.sigma)
                vega_val == vega(args.S, args.K, args.T, args.r, loc.sigma)
                price_diff == Sub(args.option_price, price)
                st == [stats EXCEPT !.nPrice = @ + 1, !.nVega = @ + 1, !.nIter = @ + 1]
            IN  IF Lt(FAbs(vega_val), vega_floor) THEN Deliver(None, "vega", st)
                ELSE IF Lt(FAbs(price_diff), tolerance)
                THEN Deliver(NewtonUpdate(loc.sigma, price_diff, vega_val), "converged", st)
                ELSE /\ loc' = [loc EXCEPT !.sigma = NewtonUpdate(loc.sigma, price_diff, vega_val),
                                           !.k = @ + 1]
                     /\ stats' = st
                     /\ UNCHANGED <<args, pc, ret>>
    /\ UNCHANGED <<callerVars, pricerVars, vizVars, parVars>>

\* variant: a vanishing vega ends the loop with the current sigma
NewtonIterateVegaReturns ==
    /\ pc = "newton_loop"
    /\ loc.k < max_iterations
    /\ IF ZeroDivision(args.K) THEN Raise(stats)
       ELSE LET price == bs_func(args.option_type, args.S, args.K, args.T, args.r, loc.sigma)
                vega_val == vega(args.S, args.K, args.T, args.r, loc.sigma)
                price_diff == Sub(args.option_price, price)
                st == [stats EXCEPT !.nPrice = @ + 1, !.nVega = @ + 1, !.nIter = @ + 1]
            IN  IF Lt(FAbs(vega_val), vega_floor) THEN Deliver(loc.sigma, "vega", st)
                ELSE IF Lt(FAbs(price_diff), tolerance) THEN Deliver(loc.sigma, "converged", st)
                ELSE /\ loc' = [loc EXCEPT !.sigma = NewtonUpdate(loc.sigma, price_diff, vega_val),
                                           !.k = @ + 1]
                     /\ stats' = st
                     /\ UNCHANGED <<args, pc, ret>>
    /\ UNCHANGED <<callerVars, pricerVars, vizVars, parVars>>

\* one iteration of for _ in range(max_iterations)
NewtonIterate ==
    /\ pc = "newton_loop"
    /\ loc.k < max_iterations
    /\ IF ZeroDivision(args.K) THEN Raise(stats)
       ELSE LET price == bs_func(args.option_type, args.S, args.K, args.T, args.r, loc.sigma)
                vega_val == vega(args.S, args.K, args.T, args.r, loc.sigma)
                price_diff == Sub(args.option_price, price)
                st == [stats EXCEPT !.nPrice = @ + 1, !.nVega = @ + 1, !.nIter = @ + 1]
            IN  IF Lt(FAbs(vega_val), vega_floor) THEN Deliver(None, "vega", st)
                ELSE IF Lt(FAbs(price_diff), tolerance) THEN Deliver(loc.sigma, "converged", st)
                ELSE /\ loc' = [loc EXCEPT !.sigma = NewtonUpdate(loc.sigma, price_diff, vega_val),
                                           !.k = @ + 1]
                     /\ stats' = st
                     /\ UNCHANGED <<args, pc, ret>>
    /\ UNCHANGED <<callerVars, pricerVars, vizVars, parVars>>

\* variant: the loop's end hands back the last sigma
NewtonExhaustedLast ==
    /\ pc = "newton_loop"
    /\ loc.k >= max_iterations
    /\ Deliver(loc.sigma, "cap", stats)
    /\ UNCHANGED <<callerVars, pricerVars, vizVars, parVars>>

\* the loop ends without a return: return None
NewtonExhausted ==
    /\ pc = "newton_loop"
    /\ loc.k >= max_iterations
    /\ Deliver(None, "cap", stats)
    /\ UNCHANGED <<callerVars, pricerVars, vizVars, parVars>>

\* implied_volatility_bisection up to the root-finder: the T <= 0 return,
\* the sign check at the bounds and the fallback to Newton
BisectionBracket ==
    /\ pc = "bisection"
    /\ IF Le(args.T, 0) THEN Deliver(None, "expired", stats)
       ELSE IF ZeroDivision(args.K)
       THEN Deliver(None, "except", [stats EXCEPT !.caught = TRUE])
       ELSE LET flo == objective(args, low_vol)
                fhi == objective(args, high_vol)
                st == [stats EXCEPT !.nPrice = @ + 2]
            IN  /\ pc' = IF ProductPositive(flo, fhi) THEN "newton" ELSE "brentq"
                /\ loc' = [loc EXCEPT !.in_try = TRUE, !.xa = low_vol, !.fa = flo,
                                      !.xb = high_vol, !.fb = fhi]
                /\ stats' = [st EXCEPT !.fallback = ProductPositive(flo, fhi)]
                /\ UNCHANGED <<args, ret>>
    /\ UNCHANGED <<callerVars, pricerVars, vizVars, parVars>>

\* scipy.optimize.brentq(objective, low_vol, high_vol, xtol=tolerance), as a
\* bisection with brentq's stopping rule.  Its entry: the function at the
\* two ends (the values the sign check saw); ValueError when they have one
\* sign.
BrentqStart ==
    /\ pc = "brentq"
    /\ ~IsNaN(loc.fa) /\ ~IsNaN(loc.fb)
    /\ IF ProductPositive(loc.fa, loc.fb)
       THEN Raise([stats EXCEPT !.nPrice = @ + 2])
       ELSE /\ pc' = "brentq_loop"
            /\ stats' = [stats EXCEPT !.nPrice = @ + 2]
            /\ UNCHANGED <<args, loc, ret>>
    /\ UNCHANGED <<callerVars, pricerVars, vizVars, parVars>>

\* brentq on a NaN function value: newer scipy releases raise ValueError
BrentqNaNRaises ==
    /\ pc = "brentq"
    /\ IsNaN(loc.fa) \/ IsNaN(loc.fb)
    /\ Raise([stats EXCEPT !.nPrice = @ + 2])
    /\ UNCHANGED <<callerVars, pricerVars, vizVars, parVars>>

\* brentq on a NaN function value: older scipy releases return NaN
BrentqNaNReturns ==
    /\ pc = "brentq"
    /\ IsNaN(loc.fa) \/ IsNaN(loc.fb)
    /\ Deliver(NaN, "brentq", [stats EXCEPT !.nPrice = @ + 2])
    /\ UNCHANGED <<callerVars, pricerVars, vizVars, parVars>>

\* variant: the root-finder keeps the half without the sign change
BrentqIterateWrongHalf ==
    /\ pc = "brentq_loop"
    /\ IF loc.fa = 0 THEN Deliver(loc.xa, "brentq", stats)
       ELSE IF loc.fb = 0 THEN Deliver(loc.xb, "brentq", stats)
       ELSE IF Abs(loc.xb - loc.xa) < tolerance
       THEN Deliver(IF Abs(loc.fa) < Abs(loc.fb) THEN loc.xa ELSE loc.xb, "brentq", stats)
       ELSE LET xm == loc.xa + ((loc.xb - loc.xa) \div 2)
                fm == objective(args, xm)
            IN  /\ loc' = IF ProductPositive(loc.fa, fm)
                          THEN [loc EXCEPT !.xb = xm, !.fb = fm]
                          ELSE [loc EXCEPT !.xa = xm, !.fa = fm]
                /\ stats' = [stats EXCEPT !.nPrice = @ + 1, !.nBrentq = @ + 1]
                /\ UNCHANGED <<args, pc, ret>>
    /\ UNCHANGED <<callerVars, pricerVars, vizVars, parVars>>

\* one step of the root-finder: stop when the function vanishes at an end
\* or the bracket is narrower than xtol, returning the end with the smaller
\* residual; otherwise halve the bracket, keeping the sign change
BrentqIterate ==
    /\ pc = "brentq_loop"
    /\ IF loc.fa = 0 THEN Deliver(loc.xa, "brentq", stats)
       ELSE IF loc.fb = 0 THEN Deliver(loc.xb, "brentq", stats)
       ELSE IF Abs(loc.xb - loc.xa) < tolerance
       THEN Deliver(IF Abs(loc.fa) < Abs(loc.fb) THEN loc.xa ELSE loc.xb, "brentq", stats)
       ELSE LET xm == loc.xa + ((loc.xb - loc.xa) \div 2)
                fm == objective(args, xm)
            IN  /\ loc' = IF ProductPositive(loc.fa, fm)
                          THEN [loc EXCEPT !.xa = xm, !.fa = fm]
                          ELSE [loc EXCEPT !.xb = xm, !.fb = fm]
                /\ stats' = [stats EXCEPT !.nPrice = @ + 1, !.nBrentq = @ + 1]
                /\ UNCHANGED <<args, pc, ret>>
    /\ UNCHANGED <<callerVars, pricerVars, vizVars, parVars>>

\* if iv and 0.01 <= iv <= 5.0: return iv; return None
Return ==
    /\ pc = "result"
    /\ pc' = "returned"
    /\ ret' = ValidateResult(loc.iv)
    /\ stats' = [stats EXCEPT !.phases = Append(@, IF ValidateResult(loc.iv) # None
                                                   THEN "Converged" ELSE "NotFound")]
    /\ UNCHANGED <<args, loc>>
    /\ UNCHANGED <<callerVars, pricerVars, vizVars, parVars>>

\* the entry of the log for the call that has returned: what it was given,
\* what it returned, what its method handed back and what it did
Logged == [args |-> args, ret |-> ret, run |-> Len(done) + 1, row |-> Len(ivs) + 1,
           iv |-> loc.iv, stats |-> stats]

Solver ==
    \/ Validate
    \/ ArbitrageCheck
    \/ NewtonInit
    \/ NewtonIterate
    \/ NewtonExhausted
    \/ BisectionBracket
    \/ BrentqStart
    \/ BrentqNaNRaises
    \/ BrentqNaNReturns
    \/ BrentqIterate
    \/ Return

\* ----------------------------------------------- the caller of one quote

Spots == {0 - U, 0, U}
Strikes == {0 - U, 0, 90000000, U, 110000000}
Times == {0 - U, 0, U}
Rates == {0, 5000000}
Kinds == {"call", "put"}
\* quotes given outright, and quotes priced by the pricer at a volatility
FixedQuotes == {NaN, 0 - 5000000, 50, 5000000, 99500000}
PricedAt == {500000, 5000000, 20000000, 100000000, 500000000}

Quote(S, K, T, r, option_type, q) ==
    IF q.priced THEN bs_func(option_type, S, K, T, r, q.v) ELSE q.v

SolveInit ==
    /\ mode = "solve"
    /\ hpc = "newton"
    /\ \E S \in Spots, K \in Strikes, T \in Times, r \in Rates, ot \in Kinds,
          q \in [priced : {FALSE}, v : FixedQuotes] \cup [priced : {TRUE}, v : PricedAt] :
          /\ q.priced => (S > 0 /\ K > 0)
          /\ args = [option_price |-> Quote(S, K, T, r, ot, q), S |-> S, K |-> K,
                     T |-> T, r |-> r, option_type |-> ot, method |-> "newton"]
          /\ truth = IF q.priced THEN q.v ELSE None
    /\ pc = "validate"
    /\ loc = NoLoc
    /\ ret = None
    /\ stats = NoStats
    /\ calls = <<>>
    /\ df = <<>>
    /\ risk_free_rate = 0
    /\ ivs = <<>>
    /\ out = <<>>
    /\ done = <<>>
    /\ again = 0
    /\ pin = NoPin
    /\ pout = NoPout
    /\ viz = NoViz
    /\ par = NoPar

\* the Newton call has returned: solve the same quote by bisection
SolveAgain ==
    /\ mode = "solve"
    /\ hpc = "newton"
    /\ pc = "returned"
    /\ calls' = Append(calls, Logged)
    /\ hpc' = "bisection"
    /\ Enter([args EXCEPT !.method = "bisection"])
    /\ UNCHANGED <<mode, truth, df, risk_free_rate, ivs, out, done, again, pricerVars, vizVars, parVars>>

SolveDone ==
    /\ mode = "solve"
    /\ hpc = "bisection"
    /\ pc = "returned"
    /\ calls' = Append(calls, Logged)
    /\ hpc' = "done"
    /\ pc' = "idle"
    /\ UNCHANGED <<mode, truth, df, risk_free_rate, ivs, out, done, again, args, loc, ret, stats, pricerVars, vizVars, parVars>>

Init == SolveInit
Next == Solver \/ SolveAgain \/ SolveDone
Spec == Init /\ [][Next]_vars

\* ------------------------------------------- calculate_iv_for_dataframe

MaxRows == 2
default_rate == 4500000            \* risk_free_rate: float = 0.045
\* the vendor's impliedVolatility column, present in the frames the data
\* layer hands over
vendor_iv == 18000000 + 0

QuotedRow(strike, option_type, mid) ==
    [midPrice |-> mid, spotPrice |-> U, strike |-> strike, timeToExpiration |-> U,
     optionType |-> option_type, impliedVolatility |-> vendor_iv]

\* an at-the-money call and a 10% out-of-the-money put quoted at 20%
\* volatility, a call quoted above the spot, an at-the-money call quoted
\* above intrinsic but below its discounted forward value, and a row with
\* a missing quote (NaN)
RowSet ==
    { QuotedRow(U, "call", bs_func("call", U, U, U, default_rate, 20000000)),
      QuotedRow(90000000, "put", bs_func("put", U, 90000000, U, default_rate, 20000000)),
      QuotedRow(U, "call", 120000000),
      QuotedRow(U, "call", 500000),
      QuotedRow(110000000, "put", NaN) }

\* variant: the strike is read from the first row of the frame
RowArgsFirstStrike(row, rate, method) ==
    [option_price |-> row.midPrice, S |-> row.spotPrice, K |-> df[1].strike,
     T |-> row.timeToExpiration, r |-> rate, option_type |-> row.optionType,
     method |-> method]

\* calculator.calculate_iv(option_price=row['midPrice'], S=row['spotPrice'], ...)
RowArgs(row, rate, method) ==
    [option_price |-> row.midPrice, S |-> row.spotPrice, K |-> row.strike,
     T |-> row.timeToExpiration, r |-> rate, option_type |-> row.optionType,
     method |-> method]

\* variant: the bisection attempt is made whatever Newton returned
AlwaysRetry(iv) == TRUE

\* iv is None
IsNone(iv) == iv = None

\* variant: no row is filtered out
KeepAll(v) == TRUE

\* pandas notna: neither None nor NaN
notna(v) == v # None /\ ~IsNaN(v)

BatchInit ==
    /\ mode = "batch"
    /\ hpc = "loop"
    /\ df \in UNION {[1..n -> RowSet] : n \in 0..MaxRows}
    /\ risk_free_rate = default_rate
    /\ ivs = <<>>
    /\ out = <<>>
    /\ done = <<>>
    /\ again = 0
    /\ calls = <<>>
    /\ truth = None
    /\ args = NoArgs
    /\ pc = "idle"
    /\ loc = NoLoc
    /\ ret = None
    /\ stats = NoStats
    /\ pin = NoPin
    /\ pout = NoPout
    /\ viz = NoViz
    /\ par = NoPar

\* for idx, row in df.iterrows(): the Newton attempt on the next row
RowNewton ==
    /\ mode = "batch"
    /\ hpc = "loop"
    /\ Len(ivs) < Len(df)
    /\ hpc' = "newton_call"
    /\ Enter(RowArgs(df[Len(ivs) + 1], risk_free_rate, "newton"))
    /\ UNCHANGED <<mode, truth, df, risk_free_rate, ivs, out, done, again, calls, pricerVars, vizVars, parVars>>

\* the Newton attempt found a volatility: ivs.append(iv)
RowFound ==
    /\ mode = "batch"
    /\ hpc = "newton_call"
    /\ pc = "returned"
    /\ ~IsNone(ret)
    /\ ivs' = Append(ivs, ret)
    /\ calls' = Append(calls, Logged)
    /\ hpc' = "loop"
    /\ pc' = "idle"
    /\ UNCHANGED <<mode, truth, df, risk_free_rate, out, done, again, args, loc, ret, stats, pricerVars, vizVars, parVars>>

\* if iv is None: the bisection attempt on the same row
RowRetry ==
    /\ mode = "batch"
    /\ hpc = "newton_call"
    /\ pc = "returned"
    /\ IsNone(ret)
    /\ calls' = Append(calls, Logged)
    /\ hpc' = "bisection_call"
    /\ Enter(RowArgs(df[Len(ivs) + 1], risk_free_rate, "bisection"))
    /\ UNCHANGED <<mode, truth, df, risk_free_rate, ivs, out, done, again, pricerVars, vizVars, parVars>>

\* the bisection attempt has returned: ivs.append(iv), found or not
RowRetried ==
    /\ mode = "batch"
    /\ hpc = "bisection_call"
    /\ pc = "returned"
    /\ ivs' = Append(ivs, ret)
    /\ calls' = Append(calls, Logged)
    /\ hpc' = "loop"
    /\ pc' = "idle"
    /\ UNCHANGED <<mode, truth, df, risk_free_rate, out, done, again, args, loc, ret, stats, pricerVars, vizVars, parVars>>

\* df['impliedVolatility'] = ivs; return df[df['impliedVolatility'].notna()]
\* The assignment writes the column into the caller's frame.
Finish ==
    /\ mode = "batch"
    /\ hpc = "loop"
    /\ Len(ivs) = Len(df)
    /\ LET frame == [i \in 1..Len(df) |-> [df[i] EXCEPT !.impliedVolatility = ivs[i]]]
           kept(row) == notna(row.impliedVolatility)
       IN  /\ df' = frame
           /\ out' = SelectSeq(frame, kept)
           /\ done' = Append(done, [input |-> df, frame |-> frame, out |-> SelectSeq(frame, kept)])
    /\ hpc' = "finished"
    /\ UNCHANGED <<mode, truth, risk_free_rate, ivs, again, calls, frameVars, pricerVars, vizVars, parVars>>

\* the caller runs calculate_iv_for_dataframe a second time, on a frame
\* that holds one of the rows of the first frame alone
RunAlone ==
    /\ mode = "batch"
    /\ hpc = "finished"
    /\ Len(done) = 1
    /\ \E i \in 1..Len(done[1].input) :
          /\ again' = i
          /\ df' = <<done[1].input[i]>>
    /\ ivs' = <<>>
    /\ out' = <<>>
    /\ hpc' = "loop"
    /\ UNCHANGED <<mode, truth, risk_free_rate, done, calls, frameVars, pricerVars, vizVars, parVars>>

BatchNext ==
    \/ Solver
    \/ RowNewton
    \/ RowFound
    \/ RowRetry
    \/ RowRetried
    \/ Finish
    \/ RunAlone
BatchSpec == BatchInit /\ [][BatchNext]_vars

\* the strike at the forward of the spot, U * exp(default_rate)
forward_strike == 104602786 + 0

\* --------------------------------- the batch on frames of the data layer

\* prepare_options_data: timeToExpiration = days_to_exp / 365.0,
\* spotPrice = the spot, midPrice = (bid + ask) / 2
\* the days of the year the data layer divides by
year == 365 + 0

\* days / 365.0 in the model's unit, without leaving the integer range
DaysToYears(days) ==
    (days \div year) * U + (days % year) * (U \div year)
        + ((days % year) * (U % year)) \div year

PreparedRow(strike, option_type, bid, ask, days_to_exp) ==
    [midPrice |-> Div(Add(bid, ask), 2 * U), spotPrice |-> U, strike |-> strike,
     timeToExpiration |-> DaysToYears(days_to_exp), optionType |-> option_type,
     impliedVolatility |-> vendor_iv]

\* contracts as a chain holds them: two liquid ones (found by Newton, rescued
\* by bisection), one without a quote struck at the forward, one expiring
\* today, one past its expiry date, one with no bid and no ask, and an
\* in-the-money put with a stale quote below its intrinsic value
ChainRowSet ==
    { PreparedRow(U, "call", 10180000, 10200000, year),
      PreparedRow(90000000, "put", 2410000, 2430000, year),
      PreparedRow(forward_strike, "call", NaN, NaN, year),
      PreparedRow(U, "call", 5000000, 5000000, 0),
      PreparedRow(U, "put", 4000000, 6000000, 0 - 1),
      PreparedRow(U, "call", 0, 0, year),
      PreparedRow(110000000, "put", 5000000, 7000000, year) }

ChainInit ==
    /\ mode = "batch"
    /\ hpc = "loop"
    /\ df \in UNION {[1..n -> ChainRowSet] : n \in 0..MaxRows}
    /\ risk_free_rate = default_rate
    /\ ivs = <<>>
    /\ out = <<>>
    /\ done = <<>>
    /\ again = 0
    /\ calls = <<>>
    /\ truth = None
    /\ args = NoArgs
    /\ pc = "idle"
    /\ loc = NoLoc
    /\ ret = None
    /\ stats = NoStats
    /\ pin = NoPin
    /\ pout = NoPout
    /\ viz = NoViz
    /\ par = NoPar

ChainNext ==
    \/ Solver
    \/ RowNewton
    \/ RowFound
    \/ RowRetry
    \/ RowRetried
    \/ Finish
ChainSpec == ChainInit /\ [][ChainNext]_vars

\* ------------------------------------------- the batch on a worker pool

\* The loop of calculate_iv_for_dataframe handed to a pool of workers: a
\* worker takes any row not yet taken, runs the row's Newton attempt and, if
\* that finds nothing, its bisection attempt, and stores the row's value at
\* the row's index; the attempts of different rows interleave in any order;
\* the join builds the output as the loop does.  The sequential loop runs
\* first on the same frame, so that the two outputs can be compared.
NumWorkers == 2

\* a row found by Newton, a row rescued by bisection, and a row with a
\* missing quote (NaN) struck at the forward, which takes Newton to its cap
\* and the root-finder to a NaN
ParRowSet ==
    { QuotedRow(U, "call", bs_func("call", U, U, U, default_rate, 20000000)),
      QuotedRow(90000000, "put", bs_func("put", U, 90000000, U, default_rate, 20000000)),
      QuotedRow(forward_strike, "call", NaN) }

\* a chain lists each contract once
ParInit ==
    /\ mode = "batch"
    /\ hpc = "loop"
    /\ df \in UNION {[1..n -> ParRowSet] : n \in 0..MaxRows}
    /\ \A i, j \in 1..Len(df) : df[i] = df[j] => i = j
    /\ risk_free_rate = default_rate
    /\ ivs = <<>>
    /\ out = <<>>
    /\ done = <<>>
    /\ again = 0
    /\ calls = <<>>
    /\ truth = None
    /\ args = NoArgs
    /\ pc = "idle"
    /\ loc = NoLoc
    /\ ret = None
    /\ stats = NoStats
    /\ pin = NoPin
    /\ pout = NoPout
    /\ viz = NoViz
    /\ par = NoPar

\* an attempt set aside: the call's frame and the row it works on
Frame == [args |-> args, pc |-> pc, loc |-> loc, ret |-> ret, stats |-> stats,
          row |-> par.row]

InFlight == Cardinality(par.parked) + (IF par.row # 0 THEN 1 ELSE 0)

Idle ==
    /\ args' = NoArgs
    /\ pc' = "idle"
    /\ loc' = NoLoc
    /\ ret' = None
    /\ stats' = NoStats

\* the pool starts on the frame the sequential loop was given
ParStart ==
    /\ mode = "batch"
    /\ hpc = "finished"
    /\ par = NoPar
    /\ hpc' = "parallel"
    /\ par' = [phase |-> "running", input |-> done[1].input, row |-> 0, parked |-> {},
               taken |-> {}, finished |-> {}, first |-> 0, peak |-> 0,
               results |-> [i \in 1..Len(done[1].input) |-> None], out |-> <<>>]
    /\ Idle
    /\ UNCHANGED <<mode, truth, df, risk_free_rate, ivs, out, done, again, calls, pricerVars, vizVars>>

\* a free worker takes a row, any row not yet taken: its Newton attempt
ParTake ==
    /\ hpc = "parallel"
    /\ pc = "idle"
    /\ par.row = 0
    /\ Cardinality(par.parked) < NumWorkers
    /\ \E i \in (1..Len(par.input)) \ par.taken :
          /\ Enter(RowArgs(par.input[i], risk_free_rate, "newton"))
          /\ par' = [par EXCEPT !.row = i, !.taken = @ \cup {i},
                                !.peak = IF InFlight + 1 > @ THEN InFlight + 1 ELSE @]
    /\ UNCHANGED <<callerVars, pricerVars, vizVars>>

\* if iv is None: the bisection attempt on the same row
ParRetry ==
    /\ hpc = "parallel"
    /\ pc = "returned"
    /\ args.method = "newton"
    /\ IsNone(ret)
    /\ Enter(RowArgs(par.input[par.row], risk_free_rate, "bisection"))
    /\ UNCHANGED <<callerVars, pricerVars, vizVars, parVars>>

\* the row's value is stored at the row's index and the worker is free
ParDone ==
    /\ hpc = "parallel"
    /\ pc = "returned"
    /\ ~IsNone(ret) \/ args.method = "bisection"
    /\ par' = [par EXCEPT !.results[par.row] = ret, !.finished = @ \cup {par.row},
                          !.first = IF @ = 0 THEN par.row ELSE @, !.row = 0]
    /\ Idle
    /\ UNCHANGED <<callerVars, pricerVars, vizVars>>

\* the scheduler sets the running attempt aside, between two solve attempts
Park ==
    /\ hpc = "parallel"
    /\ par.row # 0
    /\ pc \in {"validate", "returned"}
    /\ par' = [par EXCEPT !.parked = @ \cup {Frame}, !.row = 0]
    /\ Idle
    /\ UNCHANGED <<callerVars, pricerVars, vizVars>>

\* the scheduler resumes an attempt set aside
Resume ==
    /\ hpc = "parallel"
    /\ pc = "idle"
    /\ par.row = 0
    /\ \E f \in par.parked :
          /\ args' = f.args
          /\ pc' = f.pc
          /\ loc' = f.loc
          /\ ret' = f.ret
          /\ stats' = f.stats
          /\ par' = [par EXCEPT !.parked = @ \ {f}, !.row = f.row]
    /\ UNCHANGED <<callerVars, pricerVars, vizVars>>

\* join: every row has its value; the output is built as the loop builds it
ParJoin ==
    /\ hpc = "parallel"
    /\ pc = "idle"
    /\ par.row = 0
    /\ par.parked = {}
    /\ par.finished = 1..Len(par.input)
    /\ LET frame == [i \in 1..Len(par.input) |->
                        [par.input[i] EXCEPT !.impliedVolatility = par.results[i]]]
           kept(row) == notna(row.impliedVolatility)
       IN  par' = [par EXCEPT !.phase = "joined", !.out = SelectSeq(frame, kept)]
    /\ hpc' = "joined"
    /\ UNCHANGED <<mode, truth, df, risk_free_rate, ivs, out, done, again, calls,
                   frameVars, pricerVars, vizVars>>

ParNext ==
    \/ Solver
    \/ RowNewton
    \/ RowFound
    \/ RowRetry
    \/ RowRetried
    \/ Finish
    \/ ParStart
    \/ ParTake
    \/ ParRetry
    \/ ParDone
    \/ Park
    \/ Resume
    \/ ParJoin
ParSpec == ParInit /\ [][ParNext]_vars

\* --------------------------------------------------- the pricer on its own

PricerSpots == {50000000, 90000000, U, 110000000, 200000000}
PricerTimes == {0 - U, 0, 25000000, U}
PricerSigmas == {0 - 20000000, 0, 5000000, 20000000, U}

PricerInit ==
    /\ mode = "pricer"
    /\ hpc = "idle"
    /\ pin \in [S : PricerSpots, K : {U}, T : PricerTimes, r : Rates, sigma : PricerSigmas]
    /\ pout = NoPout
    /\ viz = NoViz
    /\ par = NoPar
    /\ df = <<>>
    /\ risk_free_rate = 0
    /\ ivs = <<>>
    /\ out = <<>>
    /\ done = <<>>
    /\ again = 0
    /\ calls = <<>>
    /\ truth = None
    /\ args = NoArgs
    /\ pc = "idle"
    /\ loc = NoLoc
    /\ ret = None
    /\ stats = NoStats

PriceCall ==
    /\ mode = "pricer"
    /\ pout.call = None
    /\ pout' = [pout EXCEPT !.call = black_scholes_call(pin.S, pin.K, pin.T, pin.r, pin.sigma)]
    /\ UNCHANGED <<pin, callerVars, frameVars, vizVars, parVars>>

PricePut ==
    /\ mode = "pricer"
    /\ pout.put = None
    /\ pout' = [pout EXCEPT !.put = black_scholes_put(pin.S, pin.K, pin.T, pin.r, pin.sigma)]
    /\ UNCHANGED <<pin, callerVars, frameVars, vizVars, parVars>>

PriceVega ==
    /\ mode = "pricer"
    /\ pout.vega = None
    /\ pout' = [pout EXCEPT !.vega = vega(pin.S, pin.K, pin.T, pin.r, pin.sigma)]
    /\ UNCHANGED <<pin, callerVars, frameVars, vizVars, parVars>>

PricerNext == PriceCall \/ PricePut \/ PriceVega
PricerSpec == PricerInit /\ [][PricerNext]_vars

\* ------------------------------------------------- the surface visualizer

\* A dataframe is its column labels and its rows.  pd.DataFrame() has neither;
\* a frame built from option rows carries every column of VizColumns.
MaxVizRows == 2
default_spot == 100
VizColumns == {"optionType", "strike", "timeToExpiration", "impliedVolatility", "spotPrice"}
VizRows == [optionType : Kinds, strike : {90, 100}, timeToExpiration : {1},
            impliedVolatility : {20}, spotPrice : {100}]

RECURSIVE FramesOfLen(_)
FramesOfLen(n) ==
    IF n = 0 THEN {<<>>}
    ELSE {Append(f, row) : f \in FramesOfLen(n - 1), row \in VizRows}

VizFrames ==
    {[columns |-> {}, rows |-> <<>>]}
        \cup {[columns |-> VizColumns, rows |-> rows] :
                 rows \in UNION {FramesOfLen(n) : n \in 0..MaxVizRows}}

\* DataFrame.empty: some axis has length 0
empty(frame) == frame.columns = {} \/ Len(frame.rows) = 0

\* frame[label] raises KeyError when the frame has no such column
KeyError(frame, label) == label \notin frame.columns

RECURSIVE SelectKind(_, _)
\* frame[frame['optionType'] == option_type]
SelectKind(rows, option_type) ==
    IF rows = <<>> THEN <<>>
    ELSE LET rest == SelectKind(Tail(rows), option_type)
         IN IF Head(rows).optionType = option_type THEN <<Head(rows)>> \o rest ELSE rest

ColumnMin(rows, label) == CHOOSE v \in {rows[i][label] : i \in 1..Len(rows)} :
                              \A i \in 1..Len(rows) : v <= rows[i][label]
ColumnMax(rows, label) == CHOOSE v \in {rows[i][label] : i \in 1..Len(rows)} :
                              \A i \in 1..Len(rows) : v >= rows[i][label]

NoneTriple == <<None, None, None>>

VizInit ==
    /\ mode = "viz"
    /\ hpc = "idle"
    /\ \E frame \in VizFrames, option_type \in Kinds :
          viz = [pc |-> "new", options_df |-> frame, option_type |-> option_type,
                 spot_price |-> None, result |-> None, raised |-> "none"]
    /\ par = NoPar
    /\ pin = NoPin
    /\ pout = NoPout
    /\ df = <<>>
    /\ risk_free_rate = 0
    /\ ivs = <<>>
    /\ out = <<>>
    /\ done = <<>>
    /\ again = 0
    /\ calls = <<>>
    /\ truth = None
    /\ args = NoArgs
    /\ pc = "idle"
    /\ loc = NoLoc
    /\ ret = None
    /\ stats = NoStats

\* IVSurfaceVisualizer.__init__
Construct ==
    /\ mode = "viz"
    /\ viz.pc = "new"
    /\ viz' = IF ~empty(viz.options_df)
              THEN IF KeyError(viz.options_df, "spotPrice")
                   THEN [viz EXCEPT !.pc = "raised", !.raised = "KeyError"]
                   ELSE [viz EXCEPT !.pc = "ready", !.spot_price = viz.options_df.rows[1].spotPrice]
              ELSE [viz EXCEPT !.pc = "ready", !.spot_price = default_spot]
    /\ UNCHANGED <<callerVars, frameVars, pricerVars, parVars>>

\* prepare_surface_data up to its early return: the lookup of the optionType
\* column comes first and raises on a frame without that column
PrepareEmpty ==
    /\ mode = "viz"
    /\ viz.pc = "ready"
    /\ \/ /\ KeyError(viz.options_df, "optionType")
          /\ viz' = [viz EXCEPT !.pc = "raised", !.raised = "KeyError"]
       \/ /\ ~KeyError(viz.options_df, "optionType")
          /\ SelectKind(viz.options_df.rows, viz.option_type) = <<>>
          /\ viz' = [viz EXCEPT !.pc = "done", !.result = NoneTriple]
    /\ UNCHANGED <<callerVars, frameVars, pricerVars, parVars>>

\* prepare_surface_data on selected rows: the grids span the selected strikes
\* and times, and griddata fills the third
PrepareGrids ==
    /\ mode = "viz"
    /\ viz.pc = "ready"
    /\ ~KeyError(viz.options_df, "optionType")
    /\ LET sel == SelectKind(viz.options_df.rows, viz.option_type)
       IN /\ sel # <<>>
          /\ viz' = [viz EXCEPT !.pc = "done",
                        !.result = <<<<ColumnMin(sel, "strike"), ColumnMax(sel, "strike")>>,
                                     <<ColumnMin(sel, "timeToExpiration"), ColumnMax(sel, "timeToExpiration")>>,
                                     "iv_grid">>]
    /\ UNCHANGED <<callerVars, frameVars, pricerVars, parVars>>

\* prepare_surface_data on selected rows that griddata cannot triangulate:
\* the cubic attempt raises, the linear one in the handler raises again.
\* Which point sets the library accepts is not modelled; either outcome may occur.
PrepareGriddataRaises ==
    /\ mode = "viz"
    /\ viz.pc = "ready"
    /\ ~KeyError(viz.options_df, "optionType")
    /\ SelectKind(viz.options_df.rows, viz.option_type) # <<>>
    /\ viz' = [viz EXCEPT !.pc = "raised", !.raised = "QhullError"]
    /\ UNCHANGED <<callerVars, frameVars, pricerVars, parVars>>

VizNext == Construct \/ PrepareEmpty \/ PrepareGrids \/ PrepareGriddataRaises
VizSpec == VizInit /\ [][VizNext]_vars

\* ------------------------------------------------------------- properties

\* a calculate_iv call is in progress or has ended
InCall == pc # "idle"

NoEvaluation ==
    stats.nPrice = 0 /\ stats.nVega = 0 /\ stats.nIter = 0 /\ stats.nBrentq = 0

\* C1: whenever option_price <= 0 or S <= 0 or K <= 0 or T <= 0, for either
\* method and either kind, calculate_iv evaluates neither the pricer nor
\* vega, runs no solver iteration, and returns not-found.
InvalidInputRejected ==
    (InCall /\ (Le(args.option_price, 0) \/ Le(args.S, 0) \/ Le(args.K, 0) \/ Le(args.T, 0)))
        => /\ NoEvaluation
           /\ pc # "raised"
           /\ pc = "returned" => ret = None

\* C1 witness: an expired quote, otherwise valid, rejected on the bisection path
InvalidInputRejectedSeen ==
    /\ pc = "returned" /\ ret = None /\ stats.exit = "input"
    /\ args.T = 0 /\ args.option_price > 0 /\ args.S > 0 /\ args.K > 0
    /\ args.method = "bisection" /\ args.option_type = "put"

\* S, K and T are valid and the price is a number
ValidMarket ==
    /\ ~IsNaN(args.option_price)
    /\ args.S > 0 /\ args.K > 0 /\ args.T > 0

IntrinsicValue ==
    IF args.option_type = "call"
    THEN (IF args.S > args.K THEN args.S - args.K ELSE 0)
    ELSE (IF args.K > args.S THEN args.K - args.S ELSE 0)

\* C2: for valid S, K, T, r and either method, a price strictly below the
\* intrinsic value of the option's kind is answered not-found, before any
\* Newton iteration and before any evaluation at the bracket.
BelowIntrinsicRejected ==
    (InCall /\ ValidMarket /\ args.option_price < IntrinsicValue)
        => /\ NoEvaluation
           /\ pc \in {"validate", "arbitrage", "returned"}
           /\ pc = "returned" => ret = None

\* C2 witness: a put quoted below K - S, rejected on the bisection path
BelowIntrinsicRejectedSeen ==
    /\ pc = "returned" /\ ret = None /\ stats.exit = "arbitrage"
    /\ ValidMarket /\ 0 < args.option_price /\ args.option_price < IntrinsicValue
    /\ args.option_type = "put" /\ args.method = "bisection"

SolverExits == {"vega", "converged", "cap", "brentq", "except", "expired"}

InBand(v) == v # None /\ ~IsNaN(v) /\ iv_min <= v /\ v <= iv_max

\* C3: every value calculate_iv returns lies in [0.01, 5.0] and is the value
\* the method produced; a value a method produced outside the band is
\* answered not-found.
ReturnedInBand ==
    pc = "returned"
        => /\ ret # None => (InBand(ret) /\ ret = loc.iv)
           /\ (stats.exit \in SolverExits /\ ~InBand(loc.iv)) => ret = None

\* C3 witness: Newton converged to a volatility in [0.001, 0.01) and the
\* call returned not-found
OutOfBandDiscarded ==
    /\ pc = "returned" /\ stats.exit = "converged" /\ args.method = "newton"
    /\ sigma_lo <= loc.iv /\ loc.iv < iv_min
    /\ ret = None

\* C4: calculate_iv never ends in an exception; invalid input, arbitrage
\* violation, vanishing vega, an exhausted iteration cap and a failure
\* inside the root-finder all end in not-found.
NeverRaises ==
    /\ pc # "raised"
    /\ (pc = "returned" /\ stats.exit \in {"input", "arbitrage", "vega", "cap", "except", "expired"})
           => ret = None

\* C4 witness: the root-finder raised, the exception was caught and the call
\* returned not-found
FailureCaught ==
    pc = "returned" /\ stats.exit = "except" /\ stats.caught /\ ret = None

\* the invocation of calculate_iv_for_dataframe that ivs belongs to
CurrentRun == IF hpc = "finished" THEN Len(done) ELSE Len(done) + 1

RowCalls(run, i) ==
    LET OfRow(c) == c.run = run /\ c.row = i
    IN  SelectSeq(calls, OfRow)

\* C5: for each row the first call is Newton's; a bisection call is made if
\* and only if Newton's returned not-found, after it and on the same
\* arguments; the row's value is Newton's when found, otherwise bisection's;
\* no row has more than two calls.
NewtonThenBisection ==
    mode = "batch"
        => /\ \A i \in 1..Len(ivs) :
                 LET A == RowCalls(CurrentRun, i)
                 IN  /\ Len(A) \in {1, 2}
                     /\ A[1].args = RowArgs(df[i], risk_free_rate, "newton")
                     /\ Len(A) = 2 <=> A[1].ret = None
                     /\ Len(A) = 2 => A[2].args = RowArgs(df[i], risk_free_rate, "bisection")
                     /\ ivs[i] = IF A[1].ret # None THEN A[1].ret ELSE A[2].ret
           /\ hpc = "newton_call"
                 => /\ RowCalls(CurrentRun, Len(ivs) + 1) = <<>>
                    /\ args.method = "newton"
           /\ hpc = "bisection_call"
                 => /\ Len(RowCalls(CurrentRun, Len(ivs) + 1)) = 1
                    /\ RowCalls(CurrentRun, Len(ivs) + 1)[1].args.method = "newton"
                    /\ RowCalls(CurrentRun, Len(ivs) + 1)[1].ret = None
                    /\ args.method = "bisection"

\* C5 witness: a finished frame with a row Newton solved and a row Newton
\* missed and bisection solved
RescuedByBisection ==
    /\ mode = "batch" /\ hpc = "finished" /\ Len(ivs) = 2
    /\ Len(RowCalls(CurrentRun, 1)) = 1 /\ ivs[1] # None
    /\ Len(RowCalls(CurrentRun, 2)) = 2 /\ ivs[2] # None

\* the rows of invocation n for which an attempt returned a volatility
Survivors(n) ==
    {i \in 1..Len(done[n].input) :
        \E k \in 1..Len(calls) : calls[k].run = n /\ calls[k].row = i /\ InBand(calls[k].ret)}

FoundValue(n, i) ==
    calls[CHOOSE k \in 1..Len(calls) :
            calls[k].run = n /\ calls[k].row = i /\ InBand(calls[k].ret)].ret

\* C6: the frame returned holds exactly the rows for which the Newton or the
\* bisection attempt returned a volatility, in input order, each with its
\* input fields and impliedVolatility set to that volatility; a row both
\* attempts missed is absent and raises nothing; never more rows than given.
OutputIsSurvivors ==
    /\ mode = "batch" => pc # "raised"
    /\ \A n \in 1..Len(done) :
          /\ Len(done[n].out) = Cardinality(Survivors(n))
          /\ Len(done[n].out) <= Len(done[n].input)
          /\ \A i \in Survivors(n) :
                done[n].out[Cardinality({j \in Survivors(n) : j <= i})]
                    = [done[n].input[i] EXCEPT !.impliedVolatility = FoundValue(n, i)]
    /\ (mode = "batch" /\ hpc = "finished") => out = done[Len(done)].out

\* C6 witness: of two rows the first, missed by both attempts, is absent and
\* the second is returned
FailedRowDropped ==
    /\ mode = "batch" /\ hpc = "finished" /\ Len(done) = 1
    /\ Len(done[1].input) = 2 /\ Survivors(1) = {2}
    /\ Len(RowCalls(1, 1)) = 2
    /\ Len(out) = 1 /\ out[1].strike = done[1].input[2].strike

\* C7: a row's implied volatility, and whether the row is returned, are the
\* same in a frame with other rows before or after it as in a frame that
\* holds the row alone, and the same for equal rows of one frame.
RowOutcomeIndependent ==
    /\ \A n \in 1..Len(done) : \A i, j \in 1..Len(done[n].input) :
          done[n].input[i] = done[n].input[j] => done[n].frame[i] = done[n].frame[j]
    /\ Len(done) = 2
          => /\ done[2].input = <<done[1].input[again]>>
             /\ done[2].frame[1] = done[1].frame[again]
             /\ (Len(done[2].out) = 1) <=> (again \in Survivors(1))

\* C7 witness: a row solved behind a different row, and solved again alone
RowSolvedAlone ==
    /\ Len(done) = 2 /\ again = 2
    /\ done[1].input[1] # done[1].input[2]
    /\ Len(done[2].out) = 1

\* C8: two calculate_iv calls with identical arguments return the same,
\* whatever calls were made before or between them.
Stateless ==
    \A i, j \in 1..Len(calls) : calls[i].args = calls[j].args => calls[i].ret = calls[j].ret

\* C8 witness: a solved call repeated after calls with other arguments
RepeatedCall ==
    \E i, j \in 1..Len(calls) :
        /\ i + 1 < j
        /\ calls[i].args = calls[j].args
        /\ calls[i].ret # None
        /\ calls[i + 1].args # calls[i].args

\* C9, as stated: for every volatility of the grid 0.05 .. 1.0 and every
\* S, K, T, r with T > 0 and either kind, solving the price of that
\* volatility by Newton returns a value within 1e-4 of it, and the bisection
\* result differs from Newton's by less than 1e-5.
RoundTripRecovers ==
    (mode = "solve" /\ hpc = "done" /\ truth # None /\ 5000000 <= truth /\ truth <= U
        /\ args.T > 0)
        => /\ calls[1].ret # None
           /\ Abs(calls[1].ret - truth) < 10000
           /\ calls[2].ret # None
           /\ Abs(calls[1].ret - calls[2].ret) < 1000

\* C10: for T <= 0 the call price is max(S - K, 0), the put price is
\* max(K - S, 0) and vega is 0, whatever r and sigma.
ExpiredIsIntrinsic ==
    (mode = "pricer" /\ pin.T <= 0)
        => /\ pout.call # None => pout.call = (IF pin.S > pin.K THEN pin.S - pin.K ELSE 0)
           /\ pout.put # None => pout.put = (IF pin.K > pin.S THEN pin.K - pin.S ELSE 0)
           /\ pout.vega # None => pout.vega = 0

\* C10 witness: at T = 0 with a volatility <= 0 and S = K the three values
\* have been computed
ExpiredPriced ==
    /\ mode = "pricer" /\ pin.T = 0 /\ pin.sigma <= 0 /\ pin.S = pin.K
    /\ pout.call = 0 /\ pout.put = 0 /\ pout.vega = 0

\* S - K * exp(-r * T)
Forward == Sub(pin.S, Mul(pin.K, Exp(Neg(Mul(pin.r, pin.T)))))

\* C11: for S > 0, K > 0, sigma > 0 and T > 0 the call price minus the put
\* price equals S - K * exp(-r * T) within 1e-6.
PutCallParity ==
    (mode = "pricer" /\ pin.S > 0 /\ pin.K > 0 /\ pin.sigma > 0 /\ pin.T > 0
        /\ pout.call # None /\ pout.put # None)
        => /\ ~IsNaN(pout.call) /\ ~IsNaN(pout.put)
           /\ Abs((pout.call - pout.put) - Forward) < 100

\* C11 witness: both prices computed, positive, off the money, r > 0
ParityPriced ==
    /\ mode = "pricer" /\ pin.S > pin.K /\ pin.r > 0 /\ pin.T > 0
    /\ pin.sigma = 20000000
    /\ pout.call # None /\ pout.put # None
    /\ pout.call > 0 /\ pout.put > 0

PriceAt(a, sigma) == bs_func(a.option_type, a.S, a.K, a.T, a.r, sigma)

\* no volatility of [0.001, 5.0] prices the quote to within the tolerance:
\* it is at least the tolerance above the value at 5.0 or below the value
\* at 0.001
AboveReach(a) ==
    /\ ~IsNaN(a.option_price) /\ a.S > 0 /\ a.K > 0 /\ a.T > 0
    /\ a.option_price >= PriceAt(a, high_vol) + tolerance
BelowReach(a) ==
    /\ ~IsNaN(a.option_price) /\ a.S > 0 /\ a.K > 0 /\ a.T > 0
    /\ a.option_price <= PriceAt(a, low_vol) - tolerance
OutOfReach(a) == AboveReach(a) \/ BelowReach(a)

\* C13: a quote out of the band's reach is answered not-found by
\* calculate_iv, by Newton and by bisection; calculate_iv_for_dataframe
\* tries both on such a row and drops it, and returns the other rows it
\* solved in input order with their fields.
OutOfReachNotFound ==
    /\ (pc = "returned" /\ OutOfReach(args)) => ret = None
    /\ (mode = "batch" /\ hpc = "finished")
          => LET n == Len(done)
                 d == done[n]
             IN  \A i \in 1..Len(d.input) :
                   /\ OutOfReach(RowArgs(d.input[i], risk_free_rate, "newton"))
                         => /\ i \notin Survivors(n)
                            /\ Len(RowCalls(n, i)) = 2
                            /\ d.frame[i].impliedVolatility = None
                   /\ i \in Survivors(n)
                         => [d.out[Cardinality({j \in Survivors(n) : j <= i})]
                                EXCEPT !.impliedVolatility = vendor_iv] = d.input[i]

\* C13 witness: of two rows the first is quoted above every price of the
\* band and is dropped, the second is returned
OutOfReachDropped ==
    /\ mode = "batch" /\ hpc = "finished" /\ Len(done) = 1 /\ Len(df) = 2
    /\ AboveReach(RowArgs(done[1].input[1], risk_free_rate, "newton"))
    /\ Len(out) = 1 /\ out[1].midPrice = done[1].input[2].midPrice
    /\ out[1].impliedVolatility # None

\* the visualizer holds no rows of the requested kind
NoRowsOfKind ==
    \A i \in 1..Len(viz.options_df.rows) : viz.options_df.rows[i].optionType # viz.option_type

\* C14, as stated: whenever the visualizer holds no rows of the requested
\* option kind, the frame without any column included, prepare_surface_data
\* returns (None, None, None) and raises nothing.
EmptyGivesNoneTriple ==
    (mode = "viz" /\ viz.pc \in {"done", "raised"} /\ NoRowsOfKind)
        => (viz.pc = "done" /\ viz.result = NoneTriple /\ viz.raised = "none")

\* C14, what the code does on frames that have their columns: the rows of
\* the requested kind being absent, the result is (None, None, None).
EmptyWithColumnsGivesNoneTriple ==
    (mode = "viz" /\ viz.pc \in {"done", "raised"} /\ NoRowsOfKind
        /\ "optionType" \in viz.options_df.columns)
        => (viz.pc = "done" /\ viz.result = NoneTriple /\ viz.raised = "none")

\* C14: the frame without columns makes prepare_surface_data raise KeyError
ColumnlessFrameRaises ==
    (mode = "viz" /\ viz.pc \in {"done", "raised"} /\ viz.options_df.columns = {})
        => (viz.pc = "raised" /\ viz.raised = "KeyError" /\ viz.spot_price = default_spot)

\* the call has ended, by a return or by an exception
Ended == pc \in {"returned", "raised"}

IterationsWithinCap ==
    /\ stats.nIter <= max_iterations
    /\ stats.nVega <= max_iterations
    /\ (stats.exit = "cap" /\ pc \in {"result", "returned"})
          => (stats.nIter = max_iterations /\ loc.iv = None)
    /\ (stats.exit = "cap" /\ pc = "returned") => ret = None

\* how far the call is from its end: the stage it is in, and within a loop
\* what the loop has left (Newton's iterations, the root-finder's bracket)
Stage ==
    CASE pc = "validate" -> 9
      [] pc = "arbitrage" -> 8
      [] pc = "bisection" -> 7
      [] pc = "brentq" -> 6
      [] pc = "brentq_loop" -> 5
      [] pc = "newton" -> 4
      [] pc = "newton_loop" -> 3
      [] pc = "result" -> 2
      [] pc \in {"returned", "raised"} -> 1
      [] OTHER -> 0
LeftInLoop ==
    CASE pc = "newton_loop" -> max_iterations - loc.k
      [] pc = "brentq_loop" -> loc.xb - loc.xa
      [] OTHER -> 0
StepsTowardsEnd ==
    (mode = "solve" /\ pc' \notin {"validate", "idle"})
        => /\ Stage >= 1 /\ Stage' >= 1 /\ LeftInLoop >= 0 /\ LeftInLoop' >= 0
           /\ \/ Stage' < Stage
              \/ Stage' = Stage /\ LeftInLoop' < LeftInLoop

\* C15: every calculate_iv call ends, and runs at most 100 Newton iterations
\* in all, with either method (the bisection path's fallback included); a
\* Newton loop that has used its 100 iterations without meeting the
\* tolerance test yields not-found, never the last sigma.  The call ends
\* because each of its steps brings it nearer to its end: it moves to a later
\* stage, or stays in a loop whose remaining count (Newton's iterations left,
\* the root-finder's bracket width) is smaller and never negative.
TerminatesWithinCap ==
    /\ [](mode = "solve" => IterationsWithinCap)
    /\ [][StepsTowardsEnd]_vars

CapReached ==
    /\ mode = "solve" /\ pc = "returned" /\ args.method = "bisection"
    /\ stats.fallback /\ stats.exit = "cap" /\ stats.nIter = max_iterations
    /\ ret = None

\* an iteration of the Newton loop is about to run
AtIteration == mode = "solve" /\ pc = "newton_loop" /\ loc.k < max_iterations

\* the price at the current sigma is within the tolerance of the market price
PriceDiffHere == Sub(args.option_price, PriceAt(args, loc.sigma))
WithinTolerance == ~IsNaN(PriceDiffHere) /\ Abs(PriceDiffHere) < tolerance

\* the vega at the current sigma is not below the floor
VegaUsable ==
    LET v == vega(args.S, args.K, args.T, args.r, loc.sigma)
    IN  IsNaN(v) \/ Abs(v) >= vega_floor

\* Newton stops at this iteration and returns the current sigma
ReturnsThisSigma ==
    pc' = "result" /\ loc'.iv = loc.sigma /\ stats'.exit = "converged"
        /\ stats'.nIter = stats.nIter + 1

\* C16, as stated: at any iteration within the cap at which the price at the
\* current sigma differs from the market price by less than the tolerance,
\* Newton stops and returns that sigma.
ToleranceMetReturnsSigma ==
    [][(AtIteration /\ WithinTolerance) => ReturnsThisSigma]_vars

\* C16, amended: the same, at the iterations at which the absolute vega at
\* the current sigma is not below 1e-10 (the vega test comes first).
ToleranceMetAndVegaUsableReturnsSigma ==
    [][(AtIteration /\ VegaUsable /\ WithinTolerance) => ReturnsThisSigma]_vars

NewtonConverged ==
    /\ mode = "solve" /\ pc = "result" /\ stats.exit = "converged"
    /\ stats.nIter > 1 /\ loc.iv = loc.sigma
    /\ Abs(PriceDiffHere) < tolerance

\* C17: if at some iteration of the Newton loop the absolute vega at the
\* current sigma is below 1e-10, the loop stops at that iteration with
\* not-found, and the call makes no further price or vega evaluation: its
\* next step is the return of not-found.
VegaFloorStops ==
    [][/\ (AtIteration /\ ~VegaUsable)
             => /\ pc' = "result" /\ loc'.iv = None /\ stats'.exit = "vega"
                /\ stats'.nPrice = stats.nPrice + 1 /\ stats'.nVega = stats.nVega + 1
                /\ stats'.nIter = stats.nIter + 1
       /\ (mode = "solve" /\ pc = "result" /\ stats.exit = "vega")
             => /\ pc' = "returned" /\ ret' = None
                /\ stats'.nPrice = stats.nPrice /\ stats'.nVega = stats.nVega
                /\ stats'.nIter = stats.nIter /\ stats'.nBrentq = stats.nBrentq]_vars

VegaFloorHit ==
    /\ mode = "solve" /\ pc = "returned" /\ stats.exit = "vega"
    /\ stats.nIter > 1 /\ stats.nIter < max_iterations /\ ret = None

Within(x, lo, hi) == ~IsNaN(x) /\ x # None /\ lo <= x /\ x <= hi
PositiveNumber(x) == ~IsNaN(x) /\ x > 0

AtLow == objective(args, low_vol)
AtHigh == objective(args, high_vol)
SameSign ==
    ~IsNaN(AtLow) /\ ~IsNaN(AtHigh)
        /\ ((AtLow > 0 /\ AtHigh > 0) \/ (AtLow < 0 /\ AtHigh < 0))
OppositeSigns ==
    ~IsNaN(AtLow) /\ ~IsNaN(AtHigh)
        /\ ((AtLow > 0 /\ AtHigh < 0) \/ (AtLow < 0 /\ AtHigh > 0))

\* implied_volatility_bisection has handed its result to calculate_iv, in the
\* call that follows the Newton call on the same quote
BisectionDelivered ==
    /\ mode = "solve" /\ hpc = "bisection" /\ pc = "result"
    /\ args.method = "bisection" /\ args.T > 0

\* C19: implied_volatility_bisection with T > 0.  When the objective has one
\* sign at sigma = 0.001 and at sigma = 5.0, the result is the result of
\* implied_volatility_newton on the same quote, reached by the same
\* iterations, and the root-finder is not run; when the signs are opposite
\* the root-finder is run and Newton is not invoked.
FallbackIsNewton ==
    BisectionDelivered
        => LET n == calls[1]
           IN /\ n.args = [args EXCEPT !.method = "newton"]
              /\ SameSign
                    => /\ loc.iv = n.iv
                       /\ stats.exit = n.stats.exit
                       /\ stats.nIter = n.stats.nIter
                       /\ stats.nVega = n.stats.nVega
                       /\ stats.nPrice = n.stats.nPrice + 2
                       /\ stats.nBrentq = 0
                       /\ stats.exit \notin {"brentq", "except"}
              /\ OppositeSigns
                    => /\ stats.exit = "brentq"
                       /\ stats.nBrentq > 0
                       /\ stats.nIter = 0 /\ stats.nVega = 0

FallbackRan ==
    /\ BisectionDelivered /\ SameSign /\ stats.nIter > 1
    /\ loc.iv = calls[1].iv /\ stats.exit = "vega"

\* sigma is within the tolerance of a root of the objective: it is a root, or
\* the objective changes sign between it and a point less than the tolerance
\* away
NearRoot(sigma) ==
    \/ objective(args, sigma) = 0
    \/ /\ sigma \in {loc.xa, loc.xb}
       /\ Abs(loc.xb - loc.xa) < tolerance
       /\ LET a == objective(args, loc.xa)
              b == objective(args, loc.xb)
          IN  ~IsNaN(a) /\ ~IsNaN(b) /\ ((a < 0 /\ b > 0) \/ (a > 0 /\ b < 0))

Terminal == {"Rejected", "Converged", "NotFound"}
Last(s) == s[Len(s)]
InputCheckPassed ==
    ~(Le(args.option_price, 0) \/ Le(args.S, 0) \/ Le(args.K, 0) \/ Le(args.T, 0))
ArbitrageCheckPassed == ~Lt(args.option_price, IntrinsicValue)

StagesWellFormed ==
    /\ stats.phases \in {<<"Validating">>, <<"Validating", "Rejected">>,
                         <<"Validating", "Iterating">>,
                         <<"Validating", "Iterating", "Converged">>,
                         <<"Validating", "Iterating", "NotFound">>}
    \* Iterating only after both checks, the input check first
    /\ Last(stats.phases) # "Validating" => pc # "validate"
    /\ pc \notin {"validate", "arbitrage"} => Last(stats.phases) # "Validating"
    /\ pc = "arbitrage" => InputCheckPassed
    /\ stats.exit = "arbitrage" => InputCheckPassed
    /\ Last(stats.phases) = "Rejected"
          => (~InputCheckPassed \/ ~ArbitrageCheckPassed)
    /\ (Len(stats.phases) >= 2 /\ stats.phases[2] = "Iterating")
          => (InputCheckPassed /\ ArbitrageCheckPassed)
    \* nothing is evaluated outside Iterating, nothing after Rejected
    /\ ~NoEvaluation => (Len(stats.phases) >= 2 /\ stats.phases[2] = "Iterating")
    /\ Last(stats.phases) = "Rejected" => (NoEvaluation /\ pc = "returned" /\ ret = None)
    \* the call has ended exactly when its stage is terminal
    /\ (pc = "returned") <=> (Last(stats.phases) \in Terminal)
    \* a value goes to the caller from Converged and only from there
    /\ pc = "returned" => ((ret # None) <=> (Last(stats.phases) = "Converged"))
    /\ (pc = "returned" /\ ret # None) => InBand(ret)

\* a step inside a call: the stages grow by at most one, never past a
\* terminal one, and a call in a terminal stage takes no further step
StageStep ==
    (mode = "solve" /\ pc' \notin {"validate", "idle"})
        => /\ Last(stats.phases) \notin Terminal
           /\ \/ stats'.phases = stats.phases
              \/ \E p \in {"Rejected", "Iterating", "Converged", "NotFound"} :
                    stats'.phases = Append(stats.phases, p)
           /\ Last(stats.phases) = "Validating" => NoEvaluation

\* C21: each calculate_iv call goes Validating -> Rejected or Validating ->
\* Iterating -> Converged or NotFound.  Iterating is entered only when the
\* input check and then the arbitrage check have passed, nothing is evaluated
\* after Rejected, the call reaches one terminal stage (every step brings it
\* nearer to its end) and stays there, and a value is returned to the caller
\* from Converged only.
CallStateMachine ==
    /\ []((mode = "solve" /\ InCall) => StagesWellFormed)
    /\ [][StageStep /\ StepsTowardsEnd]_vars

ConvergedAfterIterating ==
    /\ mode = "solve" /\ pc = "returned" /\ ret # None /\ stats.nIter > 1
    /\ stats.phases = <<"Validating", "Iterating", "Converged">>

\* C22: the rows of a batch solved by a pool of workers, in any order of
\* taking the rows and any interleaving and completion order of their solve
\* attempts, give the output of the sequential loop: the same rows, in input
\* order, with the same implied volatilities.
ParallelMatchesSequential ==
    (mode = "batch" /\ hpc = "joined")
        => /\ par.out = done[1].out
           /\ \A i \in 1..Len(par.input) :
                 par.results[i] = done[1].frame[i].impliedVolatility

OutOfOrderJoin ==
    /\ mode = "batch" /\ hpc = "joined"
    /\ Len(par.input) = 2 /\ par.peak = 2 /\ par.first = 2
    /\ Len(par.out) = 2 /\ par.out = done[1].out
    /\ par.out[1].impliedVolatility # par.out[2].impliedVolatility

\* C23, as stated: calculate_iv_for_dataframe leaves the caller's frame as
\* it was given, the same rows with the same fields and values; the
\* augmented rows exist only in the frame returned.
InputLeftUnchanged ==
    (mode = "batch" /\ hpc = "finished") => df = done[Len(done)].input

\* C23, what the code does: the caller's frame keeps its rows, in order, and
\* every field but impliedVolatility, which now holds each row's solved
\* value, not-found included.
InputGetsColumn ==
    (mode = "batch" /\ hpc = "finished")
        => LET d == done[Len(done)]
           IN /\ Len(df) = Len(d.input)
              /\ \A i \in 1..Len(df) :
                    /\ [df[i] EXCEPT !.impliedVolatility = vendor_iv] = d.input[i]
                    /\ df[i].impliedVolatility = ivs[i]

\* the objective of the quote a has one strict sign at the two bounds
SameStrictSign(a) ==
    LET lo == objective(a, low_vol)
        hi == objective(a, high_vol)
    IN  ~IsNaN(lo) /\ ~IsNaN(hi) /\ ((lo > 0 /\ hi > 0) \/ (lo < 0 /\ hi < 0))

\* the product of the objective at the two bounds is <= 0
ProductNotPositive(a) ==
    LET lo == objective(a, low_vol)
        hi == objective(a, high_vol)
    IN  ~IsNaN(lo) /\ ~IsNaN(hi)
            /\ (lo = 0 \/ hi = 0 \/ (lo > 0 /\ hi < 0) \/ (lo < 0 /\ hi > 0))

\* C24: in calculate_iv_for_dataframe, when a row's Newton attempt finds
\* nothing and the objective has one strict sign at sigma = 0.001 and at
\* sigma = 5.0, the bisection retry runs Newton again on the same inputs,
\* never the root-finder, and finds nothing either; the retry rescues a row
\* only when the product of the objective at the two bounds is <= 0.
RetryOnlyRescuesBracketed ==
    (mode = "batch" /\ hpc = "finished")
        => LET n == Len(done)
           IN \A i \in 1..Len(done[n].input) :
                LET A == RowCalls(n, i)
                    a == RowArgs(done[n].input[i], risk_free_rate, "newton")
                IN  Len(A) = 2
                      => /\ A[1].ret = None
                         /\ A[2].args = [A[1].args EXCEPT !.method = "bisection"]
                         /\ SameStrictSign(a)
                               => /\ A[2].ret = None
                                  /\ A[2].stats.fallback
                                  /\ A[2].stats.nBrentq = 0
                                  /\ A[2].stats.nIter = A[1].stats.nIter
                                  /\ A[2].stats.exit = A[1].stats.exit
                                  /\ A[2].iv = A[1].iv
                         /\ A[2].ret # None
                               => (ProductNotPositive(a) /\ A[2].stats.nBrentq > 0)

RetryRepeatsNewton ==
    /\ mode = "batch" /\ hpc = "finished" /\ Len(done) = 1 /\ Len(df) = 2
    /\ Len(RowCalls(1, 1)) = 2 /\ RowCalls(1, 1)[2].stats.fallback
    /\ RowCalls(1, 1)[2].stats.nIter > 1 /\ RowCalls(1, 1)[2].ret = None
    /\ Len(RowCalls(1, 2)) = 2 /\ RowCalls(1, 2)[2].ret # None

\* the intrinsic value of a row's option kind
RowIntrinsic(row) ==
    IF row.optionType = "call"
    THEN (IF row.spotPrice > row.strike THEN row.spotPrice - row.strike ELSE 0)
    ELSE (IF row.strike > row.spotPrice THEN row.strike - row.spotPrice ELSE 0)

Accepted(row) ==
    /\ PositiveNumber(row.midPrice) /\ PositiveNumber(row.spotPrice)
    /\ PositiveNumber(row.strike) /\ PositiveNumber(row.timeToExpiration)
    /\ row.midPrice >= RowIntrinsic(row)
    /\ InBand(row.impliedVolatility)

\* C25: every row of the output of calculate_iv_for_dataframe has
\* midPrice > 0, spotPrice > 0, strike > 0, timeToExpiration > 0, midPrice
\* at least the intrinsic value of its kind and 0.01 <= impliedVolatility
\* <= 5.0; a row with timeToExpiration <= 0 is never in the output.
OutputRowsAccepted ==
    (mode = "batch" /\ hpc = "finished")
        => /\ \A k \in 1..Len(out) : Accepted(out[k])
           /\ \A i \in 1..Len(done[1].input) :
                 ~PositiveNumber(done[1].input[i].timeToExpiration)
                    => /\ ivs[i] = None
                       /\ \A k \in 1..Len(out) :
                             out[k].timeToExpiration # done[1].input[i].timeToExpiration

ExpiredRowDropped ==
    /\ mode = "batch" /\ hpc = "finished" /\ Len(done[1].input) = 2
    /\ done[1].input[1].timeToExpiration <= 0 /\ done[1].input[1].midPrice > 0
    /\ Len(out) = 1 /\ out[1].strike = done[1].input[2].strike
    /\ out[1].impliedVolatility = ivs[2] /\ Accepted(out[1])
=============================================================================
